---- MODULE Spec2Model ----
(***************************************************************************)
(* Symbol reference hints (crates/zed/src/zed/symbol_ref_hints.rs).        *)
(*                                                                         *)
(* The controller SymbolRefHints owns `enabled`, `refresh_rev`, the two    *)
(* subscriptions and `ongoing_task`.  Its handlers run on the foreground   *)
(* executor, one at a time and to completion; the task spawned by          *)
(* refresh_symbol_ref_hints runs on the same executor and gives control    *)
(* back only at its awaits (the debounce timer, the document-symbol query, *)
(* each references query).  One action of this module is one handler, or   *)
(* one run of the task from the await it resumes from to the next await or *)
(* to its return.                                                          *)
(*                                                                         *)
(* Offsets stand for the text anchors of the source; every editor has one  *)
(* annotation sink (its inlays).  The controller and the editors outlive   *)
(* the behaviours modelled, so read_with and update on `this` and on the   *)
(* editor handle succeed; project.update may fail (a query that cannot be  *)
(* issued) in the specifications that say so.                              *)
(***************************************************************************)
EXTENDS Integers, Sequences, FiniteSets, TLC

VARIABLES
    enabled,                \* SymbolRefHints::enabled
    refresh_rev,            \* SymbolRefHints::refresh_rev
    ongoing_task,           \* SymbolRefHints::ongoing_task: 0 is Task::ready(()), n is the n-th spawned task
    observe_active_editor,  \* SymbolRefHints::_observe_active_editor: the editor subscribed to, or NoEditor
    observe_settings,       \* SymbolRefHints::_observe_settings: the editor the settings observer holds, or NoEditor
    tasks,                  \* every task spawned so far, in spawn order
    hints_on,               \* per editor: Editor::inlay_hints_enabled()
    has_excerpt,            \* per editor: Editor::active_excerpt() is Some, and anchors resolve in the excerpt
    outline,                \* per editor: the outline items of the buffer snapshot
    inlays,                 \* per editor: the inlays the editor displays (the annotation sink)
    last_step               \* history: the operation that produced this state and the path it took

vars == <<enabled, refresh_rev, ongoing_task, observe_active_editor, observe_settings,
          tasks, hints_on, has_excerpt, outline, inlays, last_step>>

----------------------------------------------------------------------------
(* Program constants *)

HINT_BASE_ID == 900000000
MAX_REMOVE == 1024

(* Bounds of the model *)

MaxTasks == 2       \* tasks spawned in one behaviour
MaxRev == 1         \* bumps of refresh_rev once a task was spawned
LineLen == 40       \* characters per buffer line, for offset -> point
MaxSymbols == 3     \* symbols of a forest the resolver specification draws
MaxSkip == 2        \* queries in a row that cannot be issued
MaxChildren == 2    \* children of a symbol the flatten specification draws

----------------------------------------------------------------------------
(* Editors, documents, symbols *)

Editors == {"E1", "E2"}
NoEditor == "NoEditor"

\* editor.buffer().read(app).as_singleton().is_some(): fixed when the
\* multi-buffer is built.  E1 shows one buffer, E2 is a multi-excerpt view.
is_singleton_any(e) == TRUE

is_singleton(e) == e = "E1"

Item(s, e) == [start |-> s, end |-> e]
Sym(rs, re, ss, se, ch) ==
    [range |-> [start |-> rs, end |-> re],
     selection_range |-> [start |-> ss, end |-> se],
     children |-> ch]

DocEmpty == <<>>
DocScenario == <<Item(0, 50), Item(60, 120)>>
Documents == {DocEmpty, DocScenario}

ForestScenario == <<Sym(0, 200, 5, 10, <<>>), Sym(60, 100, 65, 70, <<>>)>>
ForestNested == <<Sym(0, 200, 5, 10, <<Sym(60, 100, 65, 70, <<>>), Sym(60, 100, 61, 62, <<>>)>>)>>
Forests == {ForestScenario, ForestNested}

(* Inputs of the resolver specification: every forest of at most MaxSymbols *)
(* childless symbols over Offsets, and the nested forests above            *)
Offsets == 0..2
ResolverSymbols ==
    {Sym(rs, re, ss, ss, <<>>) : <<rs, re, ss>> \in
        {x \in Offsets \X Offsets \X Offsets : x[1] <= x[3] /\ x[3] <= x[2]}}
ResolverForests ==
    UNION {[1..k -> ResolverSymbols] : k \in 0..MaxSymbols} \cup Forests
ResolverDocs ==
    {<<Item(o, o + 1)>> : o \in Offsets} \cup {<<Item(0, 1), Item(1, 2)>>, DocScenario}

(* Inputs of the span specification: childless symbols with any start and   *)
(* end over Offsets, the end before the start included, and the forests of  *)
(* up to MaxSymbols of them                                                 *)
SpanSymbols == {Sym(rs, re, rs, rs, <<>>) : rs \in Offsets, re \in Offsets}
SpanForests == UNION {[1..k -> SpanSymbols] : k \in 0..MaxSymbols}

(* Inputs of the flatten specification: symbols with no children, symbols   *)
(* with up to MaxChildren such children, symbols with up to MaxChildren of  *)
(* those as children, and the forests of up to MaxChildren roots of depth   *)
(* two or of one root of depth three; equal symbols may occur twice, and a  *)
(* symbol with children may equal a childless one in its ranges            *)
OuterRange == <<0, 200, 5, 10>>
InnerRange == <<60, 100, 65, 70>>
SymbolsOver(ranges, children) ==
    {Sym(r[1], r[2], r[3], r[4], ch) : r \in ranges,
        ch \in UNION {[1..k -> children] : k \in 0..MaxChildren}}
FlattenLeaves == SymbolsOver({OuterRange, InnerRange}, {})
FlattenDepthTwo == SymbolsOver({OuterRange}, FlattenLeaves)
FlattenDepthThree == SymbolsOver({OuterRange}, FlattenDepthTwo)
FlattenForests ==
    UNION {[1..k -> FlattenDepthTwo] : k \in 0..MaxChildren}
    \cup {<<s>> : s \in FlattenDepthThree}

(* Inputs of the capacity specification: outlines around MAX_REMOVE entries *)
BigDoc(n) == [i \in 1..n |-> Item(2 * (i - 1), 2 * i - 1)]
CapacityDocs == {BigDoc(MAX_REMOVE), BigDoc(MAX_REMOVE + 1)}

\* Outcomes of project.document_symbols(..).await and project.references(..).await
SymbolOutcomes == {[ok |-> FALSE, symbols |-> <<>>]} \cup {[ok |-> TRUE, symbols |-> f] : f \in Forests}
RefOutcomes == {[kind |-> "Err", len |-> 0], [kind |-> "None", len |-> 0]}
                 \cup {[kind |-> "Some", len |-> n] : n \in {0, 3}}

(* Inputs of the counting specification: a three-entry outline, an empty   *)
(* symbol answer, counts of one and of three digits, and up to MaxSkip     *)
(* queries in a row that cannot be issued                                  *)
DocThree == <<Item(0, 50), Item(60, 120), Item(130, 150)>>
CountDocs == {DocScenario, DocThree}
CountSymbolOutcomes == SymbolOutcomes \cup {[ok |-> TRUE, symbols |-> <<>>]}
CountRefOutcomes == {[kind |-> "Err", len |-> 0], [kind |-> "None", len |-> 0]}
                    \cup {[kind |-> "Some", len |-> n] : n \in {0, 7, 105}}

\* EditorEvent: the six kinds the subscription listens to, and one of the others
EditorEvents == {"Reparsed", "ExcerptsEdited", "Edited", "BufferEdited", "Saved",
                 "InlayHintsToggledOn", "InlayHintsToggledOff", "SelectionsChanged"}

----------------------------------------------------------------------------
(* Pure helpers *)

removal_ids_inclusive == HINT_BASE_ID .. (HINT_BASE_ID + MAX_REMOVE)

removal_ids == HINT_BASE_ID .. (HINT_BASE_ID + MAX_REMOVE - 1)

\* Editor::splice_inlays(to_remove, to_insert)
splice_inlays(sink, to_remove, to_insert) ==
    {x \in sink : x.id \notin to_remove} \cup to_insert

\* u64::wrapping_add(1).  The revision is held as the two's-complement reading
\* of its 64 bits: -1 is u64::MAX and -2 is u64::MAX - 1, so adding one takes
\* u64::MAX to 0; the guards keep refresh_rev below MaxRev.
wrapping_add_nothing(r) == r

wrapping_add_saturating(r) == IF r = -1 THEN r ELSE r + 1

wrapping_add(r) == r + 1

\* ToPoint for a buffer whose lines are LineLen characters long
to_point(offset) == [row |-> offset \div LineLen, column |-> offset % LineLen]

\* `for child in symbol.children.iter().cloned() { stack.push(child); }`
PushChildrenNone(stack, symbol) == stack

PushChildrenTwice(stack, symbol) == stack \o symbol.children \o symbol.children

PushChildren(stack, symbol) == stack \o symbol.children

\* The `while let Some(mut symbol) = stack.pop()` loop; pops counts the
\* iterations, and the result is the loop's locals when pop returns None
RECURSIVE FlattenLoop(_, _, _)
FlattenLoop(stack, flat_symbols, pops) ==
    IF stack = <<>> THEN [flat_symbols |-> flat_symbols, stack |-> stack, pops |-> pops]
    ELSE LET symbol == stack[Len(stack)]
             rest == SubSeq(stack, 1, Len(stack) - 1)
         IN FlattenLoop(PushChildren(rest, symbol),
                        Append(flat_symbols, [symbol EXCEPT !.children = <<>>]),
                        pops + 1)

\* The run of flatten_document_symbols; the function returns its flat_symbols
flatten_document_symbols(doc_symbols) == FlattenLoop(doc_symbols, <<>>, 0)

ContainsClosed(symbol, item_offset) ==
    symbol.range.start <= item_offset /\ item_offset <= symbol.range.end

ContainsStartOnly(symbol, item_offset) == symbol.range.start <= item_offset

Contains(symbol, item_offset) ==
    symbol.range.start <= item_offset /\ item_offset < symbol.range.end

Span(symbol) == symbol.range.end - symbol.range.start

\* `this_span <= prev_span` of the resolver
ReplacesBestLarger(this_span, prev_span) == this_span >= prev_span

ReplacesBestStrict(this_span, prev_span) == this_span < prev_span

ReplacesBest(this_span, prev_span) == this_span <= prev_span

\* The `for symbol in &flat_symbols` loop; best is <<>> (None) or <<symbol>>.
\* `spans` is history: the differences prev_span and this_span the loop has
\* computed, as integers; a usize subtraction underflows where one is negative
RECURSIVE BestSymbolLoop(_, _, _, _, _)
BestSymbolLoop(flat_symbols, k, item_offset, best, spans) ==
    IF k > Len(flat_symbols) THEN [best |-> best, spans |-> spans]
    ELSE LET symbol == flat_symbols[k]
             compares == Contains(symbol, item_offset) /\ best # <<>>
             next == IF Contains(symbol, item_offset)
                     THEN IF best = <<>> THEN <<symbol>>
                          ELSE IF ReplacesBest(Span(symbol), Span(best[1]))
                               THEN <<symbol>> ELSE best
                     ELSE best
         IN BestSymbolLoop(flat_symbols, k + 1, item_offset, next,
                           IF compares THEN spans \o <<Span(best[1]), Span(symbol)>>
                           ELSE spans)

best_symbol(flat_symbols, item) ==
    BestSymbolLoop(flat_symbols, 1, item.start, <<>>, <<>>).best

\* The spans the resolver computes for each item
ResolverSpans(flat_symbols, items) ==
    [i \in 1..Len(items) |->
        BestSymbolLoop(flat_symbols, 1, items[i].start, <<>>, <<>>).spans]

\* One element of `positions`
AnchorPositionOrigin(flat_symbols, item) ==
    LET best == best_symbol(flat_symbols, item)
    IN IF best # <<>> THEN to_point(best[1].selection_range.start)
       ELSE to_point(0)

AnchorPosition(flat_symbols, item) ==
    LET best == best_symbol(flat_symbols, item)
    IN IF best # <<>> THEN to_point(best[1].selection_range.start)
       ELSE to_point(item.start)

\* `items.iter().map(|item| ..).collect::<Vec<_>>()`: one position per item
PositionsTwice(flat_symbols, items) ==
    [i \in 1..(2 * Len(items)) |-> AnchorPosition(flat_symbols, items[((i - 1) % Len(items)) + 1])]

Positions(flat_symbols, items) ==
    [i \in 1..Len(items) |-> AnchorPosition(flat_symbols, items[i])]

\* match task.await { Ok(Some(locations)) => locations.len(), Ok(None) => 0, Err(_) => 0 }
CountOfNoneAsOne(outcome) ==
    IF outcome.kind = "Some" THEN outcome.len ELSE IF outcome.kind = "None" THEN 1 ELSE 0

CountOf(outcome) == IF outcome.kind = "Some" THEN outcome.len ELSE 0

Digit(d) == CASE d = 0 -> "0" [] d = 1 -> "1" [] d = 2 -> "2" [] d = 3 -> "3" [] d = 4 -> "4"
              [] d = 5 -> "5" [] d = 6 -> "6" [] d = 7 -> "7" [] d = 8 -> "8" [] d = 9 -> "9"

RECURSIVE ToDecimal(_)
ToDecimal(n) == IF n < 10 THEN <<Digit(n)>> ELSE Append(ToDecimal(n \div 10), Digit(n % 10))

\* format!("{} ", count), as a sequence of characters
FormatCountBare(count) == ToDecimal(count)

FormatCount(count) == Append(ToDecimal(count), " ")

\* The multi-buffer anchor of an item: anchor_in_excerpt(excerpt_id, item.range.start)
InlayPositionAtEnd(item) == item.end

InlayPosition(item) == item.start

\* Inlay::symbol_ref_hint(HINT_BASE_ID + i, position, text), i counted from 0.
\* `cycle` is history: the task that built the inlay.
BuildInlaysFreshIds(t, items, counts, excerpt_found) ==
    IF excerpt_found
    THEN {[id |-> HINT_BASE_ID + (i - 1) + Len(items) * (t - 1),
           position |-> InlayPosition(items[i]),
           text |-> FormatCount(counts[i]), cycle |-> t] : i \in 1..Len(items)}
    ELSE {}

BuildInlays(t, items, counts, excerpt_found) ==
    IF excerpt_found
    THEN {[id |-> HINT_BASE_ID + (i - 1), position |-> InlayPosition(items[i]),
           text |-> FormatCount(counts[i]), cycle |-> t] : i \in 1..Len(items)}
    ELSE {}

----------------------------------------------------------------------------
(* Tasks *)

Live == {"debounce", "symbols", "refs"}

\* `issued` is history: the entries whose references query the task has
\* issued (project.references was called), in the order of the calls.
NewTask(e, rev, items) ==
    [editor |-> e, rev |-> rev, pc |-> "debounce", items |-> items,
     flat_symbols |-> <<>>, positions |-> <<>>, counts |-> <<>>, issued |-> <<>>]

\* Dropping a Task handle cancels the task: its future is dropped at the
\* await it is suspended at, with everything it holds.  `h` is the handle.
DropKeepsRunning(ts, h) == ts

DropTask(ts, h) ==
    IF h # 0 /\ ts[h].pc \in Live
    THEN [ts EXCEPT ![h] = [NewTask(@.editor, @.rev, <<>>) EXCEPT !.pc = "dropped"]]
    ELSE ts

\* History records.  A step of a task names the task, the answer it resumed
\* with, the entry whose query that answer belongs to (0 if none) and the
\* number of queries it then could not issue; a step that ends a task also
\* keeps what the task held when it ended (its items, the positions it
\* resolved, its counts, the queries it issued), which the task itself gives
\* up when it returns, and the sink of its editor as it was before the step.
NoOutcome == [kind |-> "-", len |-> 0]

Step(op, e, path) ==
    [op |-> op, editor |-> e, path |-> path, task |-> 0, items |-> <<>>,
     positions |-> <<>>, counts |-> <<>>, issued |-> <<>>,
     outcome |-> NoOutcome, entry |-> 0, skipped |-> 0, before |-> {}]

TaskStep(op, t, path, outcome, entry, skipped) ==
    [op |-> op, editor |-> tasks[t].editor, path |-> path, task |-> t, items |-> <<>>,
     positions |-> <<>>, counts |-> <<>>, issued |-> <<>>,
     outcome |-> outcome, entry |-> entry, skipped |-> skipped, before |-> {}]

TaskEnd(op, t, path, positions, counts, issued, outcome, entry, skipped) ==
    [op |-> op, editor |-> tasks[t].editor, path |-> path, task |-> t,
     items |-> tasks[t].items,
     positions |-> positions, counts |-> counts, issued |-> issued,
     outcome |-> outcome, entry |-> entry, skipped |-> skipped,
     before |-> inlays[tasks[t].editor]]

----------------------------------------------------------------------------
Init ==
    /\ enabled = FALSE
    /\ refresh_rev = 0
    /\ ongoing_task = 0
    /\ observe_active_editor = NoEditor
    /\ observe_settings = NoEditor
    /\ tasks = <<>>
    /\ hints_on = [e \in Editors |-> TRUE]
    /\ has_excerpt = [e \in Editors |-> TRUE]
    /\ outline = [e \in Editors |-> IF is_singleton(e) THEN DocScenario ELSE DocEmpty]
    /\ inlays = [e \in Editors |-> {}]
    /\ last_step = Step("new", NoEditor, "new")

----------------------------------------------------------------------------
(* The controller's synchronous code.  Each operator below constrains the  *)
(* next value of refresh_rev, inlays, tasks and ongoing_task; the action   *)
(* that uses it says what the editor looks like when the handler runs.     *)

inlays_enabled(hon) == enabled /\ hon

\* self.refresh_rev = self.refresh_rev.wrapping_add(1); splice_inlays(removal_ids, [])
\* The guard bounds the counter: MaxRev bumps, and one more while no task has
\* been spawned yet.
bump_and_clear(e) ==
    /\ refresh_rev < MaxRev + (IF tasks = <<>> THEN 1 ELSE 0)
    /\ refresh_rev' = wrapping_add(refresh_rev)
    /\ inlays' = [inlays EXCEPT ![e] = splice_inlays(@, removal_ids, {})]

\* self.ongoing_task = Task::ready(()), on the task list ts with handle h
cancel_task(ts, h) ==
    /\ tasks' = DropTask(ts, h)
    /\ ongoing_task' = 0

\* The revision a new task captures: `let rev = self.refresh_rev;`
CapturedRevNext == refresh_rev + 1

CapturedRev == refresh_rev

\* `let Some((excerpt_id, buffer, items)) = maybe_data else { return; };`
\* leaves the stored task as it is
ReturnNoExcerptCancels(ts, h) == cancel_task(ts, h)

ReturnNoExcerpt(ts, h) ==
    /\ tasks' = ts
    /\ ongoing_task' = h

\* refresh_symbol_ref_hints(editor, ..), called with task list ts and handle h,
\* on an editor whose active excerpt is present iff exc and whose outline is items
refresh_symbol_ref_hints(op, e, ts, h, exc, items) ==
    IF ~is_singleton(e)
    THEN /\ bump_and_clear(e)
         /\ cancel_task(ts, h)
         /\ last_step' = Step(op, e, "not_singleton")
    ELSE IF ~exc
    THEN /\ ReturnNoExcerpt(ts, h)
         /\ UNCHANGED <<refresh_rev, inlays>>
         /\ last_step' = Step(op, e, "no_excerpt")
    ELSE /\ Len(ts) < MaxTasks
         /\ tasks' = Append(DropTask(ts, h), NewTask(e, CapturedRev, items))
         /\ ongoing_task' = Len(ts) + 1
         /\ UNCHANGED <<refresh_rev, inlays>>
         /\ last_step' = Step(op, e, "spawned")

\* The event kinds the `match event` of the subscription closure hands on
ListenedAll == EditorEvents

Listened == {"Reparsed", "ExcerptsEdited", "Edited", "BufferEdited", "Saved",
             "InlayHintsToggledOn", "InlayHintsToggledOff"}

\* The subscription closure and on_symbols_changed(editor, .., event); hon, exc
\* and items are the editor's hint display, active excerpt and outline now
on_symbols_changed(e, event, hon, exc, items) ==
    IF event \notin Listened
    THEN /\ UNCHANGED <<refresh_rev, inlays, tasks, ongoing_task>>
         /\ last_step' = Step(event, e, "ignored")
    ELSE IF event = "InlayHintsToggledOff"
    THEN /\ bump_and_clear(e)
         /\ UNCHANGED <<tasks, ongoing_task>>
         /\ last_step' = Step(event, e, "toggled_off")
    ELSE IF ~inlays_enabled(hon)
    THEN /\ bump_and_clear(e)
         /\ UNCHANGED <<tasks, ongoing_task>>
         /\ last_step' = Step(event, e, "not_enabled")
    ELSE IF ~is_singleton(e)
    THEN /\ bump_and_clear(e)
         /\ UNCHANGED <<tasks, ongoing_task>>
         /\ last_step' = Step(event, e, "not_singleton")
    ELSE refresh_symbol_ref_hints(event, e, tasks, ongoing_task, exc, items)

\* An event of editor e reaches the controller only through the subscription
Deliver(e, event, hon, exc, items) ==
    IF observe_active_editor = e
    THEN on_symbols_changed(e, event, hon, exc, items)
    ELSE /\ UNCHANGED <<refresh_rev, inlays, tasks, ongoing_task>>
         /\ last_step' = Step(event, e, "unobserved")

----------------------------------------------------------------------------
(* Actions: the environment and the handlers it runs *)

\* The owner of the controller writes the public field `enabled`
SetEnabled(b) ==
    /\ enabled # b
    /\ enabled' = b
    /\ last_step' = Step("SetEnabled", NoEditor, IF b THEN "on" ELSE "off")
    /\ UNCHANGED <<refresh_rev, ongoing_task, observe_active_editor, observe_settings,
                   tasks, hints_on, has_excerpt, outline, inlays>>

\* `self._observe_active_editor = None; self._observe_settings = None;`
SubscriptionKept == observe_active_editor

NoSubscription == NoEditor

\* StatusItemView::set_active_pane_item; item is an editor, or NoEditor for
\* no item and for an item that is not an editor
set_active_pane_item(item) ==
    /\ IF item \in Editors
       THEN /\ observe_active_editor' = item
            /\ observe_settings' = item
            /\ refresh_symbol_ref_hints("set_active_pane_item", item,
                                        DropTask(tasks, ongoing_task), 0,
                                        has_excerpt[item], outline[item])
       ELSE /\ observe_active_editor' = NoSubscription
            /\ observe_settings' = NoSubscription
            /\ cancel_task(DropTask(tasks, ongoing_task), 0)
            /\ UNCHANGED <<refresh_rev, inlays>>
            /\ last_step' = Step("set_active_pane_item", NoEditor, "no_editor")
    /\ UNCHANGED <<enabled, hints_on, has_excerpt, outline>>

\* The observe_global_in::<SettingsStore> closure
SettingsChanged ==
    /\ observe_settings \in Editors
    /\ LET e == observe_settings
       IN IF ~(enabled /\ hints_on[e]) \/ ~is_singleton(e)
          THEN /\ bump_and_clear(e)
               /\ cancel_task(tasks, ongoing_task)
               /\ last_step' = Step("SettingsChanged", e, "cleared")
          ELSE refresh_symbol_ref_hints("SettingsChanged", e, tasks, ongoing_task,
                                        has_excerpt[e], outline[e])
    /\ UNCHANGED <<enabled, observe_active_editor, observe_settings,
                   hints_on, has_excerpt, outline>>

\* An editor event that changes nothing the controller reads
EditorEvent(e, event) ==
    /\ event \in {"Reparsed", "SelectionsChanged"}
    /\ observe_active_editor = e
    /\ on_symbols_changed(e, event, hints_on[e], has_excerpt[e], outline[e])
    /\ UNCHANGED <<enabled, observe_active_editor, observe_settings,
                   hints_on, has_excerpt, outline>>

\* The user toggles the inlay hints of an editor: the editor emits
\* InlayHintsToggled { enabled: b }
ToggleInlayHints(e, b) ==
    /\ hints_on' = [hints_on EXCEPT ![e] = b]
    /\ Deliver(e, IF b THEN "InlayHintsToggledOn" ELSE "InlayHintsToggledOff",
               b, has_excerpt[e], outline[e])
    /\ UNCHANGED <<enabled, observe_active_editor, observe_settings, has_excerpt, outline>>

\* The editor's hint display changes with its settings, without an editor event
InlayHintSettingsApplied(e, b) ==
    /\ hints_on[e] # b
    /\ hints_on' = [hints_on EXCEPT ![e] = b]
    /\ last_step' = Step("InlayHintSettingsApplied", e, IF b THEN "on" ELSE "off")
    /\ UNCHANGED <<enabled, refresh_rev, ongoing_task, observe_active_editor,
                   observe_settings, tasks, has_excerpt, outline, inlays>>

\* The buffer of a single-buffer editor is edited: its outline becomes d
EditBuffer(e, d) ==
    /\ is_singleton(e)
    /\ outline[e] # d
    /\ outline' = [outline EXCEPT ![e] = d]
    /\ Deliver(e, "BufferEdited", hints_on[e], has_excerpt[e], d)
    /\ UNCHANGED <<enabled, observe_active_editor, observe_settings, hints_on, has_excerpt>>

\* The excerpt of a single-buffer editor goes away or comes back
ExcerptsChanged(e, b) ==
    /\ is_singleton(e)
    /\ has_excerpt[e] # b
    /\ has_excerpt' = [has_excerpt EXCEPT ![e] = b]
    /\ Deliver(e, "ExcerptsEdited", hints_on[e], b, outline[e])
    /\ UNCHANGED <<enabled, observe_active_editor, observe_settings, hints_on, outline>>

----------------------------------------------------------------------------
(* Actions: the task spawned by refresh_symbol_ref_hints *)

\* The task returns: its future and everything it holds are freed
Return(t) ==
    [tasks EXCEPT ![t] = [NewTask(@.editor, @.rev, <<>>) EXCEPT !.pc = "done"]]

\* What the closures the task hands to this.update do to the controller:
\* `|this, _| this.enabled` and `|this, _| this.refresh_rev != rev` assign
\* nothing
TaskBumpsRevision == enabled' = enabled /\ refresh_rev' = wrapping_add(refresh_rev)

TaskReadsController == enabled' = enabled /\ refresh_rev' = refresh_rev

\* The enablement check: `if !(our_enabled && inlay_enabled) { return; }`
TaskEnabledHintsOnly(e) == hints_on[e]

TaskEnabled(e) == enabled /\ hints_on[e]

\* `this.refresh_rev != rev`
Invalidated(t) == refresh_rev # tasks[t].rev

\* The tail of the task, from the inlays being built to its return
\* (lines 224-256), run with the counts collected
PublishPathNoRevisionCheck(t, built) ==
    IF built = {} THEN "empty"
    ELSE IF ~TaskEnabled(tasks[t].editor) THEN "disabled"
    ELSE "published"

PublishPathNoEnablementCheck(t, built) ==
    IF built = {} THEN "empty"
    ELSE IF Invalidated(t) THEN "invalidated"
    ELSE "published"

PublishPath(t, built) ==
    IF built = {} THEN "empty"
    ELSE IF ~TaskEnabled(tasks[t].editor) THEN "disabled"
    ELSE IF Invalidated(t) THEN "invalidated"
    ELSE "published"

Finish(op, t, positions, counts, issued, outcome, entry, skipped) ==
    LET e == tasks[t].editor
        built == BuildInlays(t, tasks[t].items, counts, has_excerpt[e])
        path == PublishPath(t, built)
    IN /\ tasks' = Return(t)
       /\ inlays' = IF path = "published"
                    THEN [inlays EXCEPT ![e] = splice_inlays(@, removal_ids, built)]
                    ELSE inlays
       /\ last_step' = TaskEnd(op, t, path, positions, counts, issued, outcome, entry, skipped)

Zeros(k) == [i \in 1..k |-> 0]

Min(a, b) == IF a <= b THEN a ELSE b

\* The task calls project.references for entry k and awaits the answer
IssueTwo(issued, k) == issued \o <<k, k + 1>>

IssueNext(issued, k) == Append(issued, k)

\* The `for position in &positions` loop (lines 207-222), entered or resumed
\* with the counts pushed so far: the next `skip` queries cannot be issued
\* (project.update fails, count 0, no await), then either the loop is over and
\* the task runs to its return, or the next query is issued and awaited
QueryPass(op, t, flat, positions, counts, skip, outcome, entry) ==
    LET skipped == Min(skip, Len(positions) - Len(counts))
        counts2 == counts \o Zeros(skipped)
    IN IF Len(counts2) = Len(positions)
       THEN Finish(op, t, positions, counts2, tasks[t].issued, outcome, entry, skipped)
       ELSE /\ tasks' = [tasks EXCEPT ![t].pc = "refs",
                                      ![t].flat_symbols = flat,
                                      ![t].positions = positions,
                                      ![t].counts = counts2,
                                      ![t].issued = IssueNext(@, Len(counts2) + 1)]
            /\ inlays' = inlays
            /\ last_step' = TaskStep(op, t, "refs", outcome, entry, skipped)

\* Lines 171-205 and on: flatten, resolve every item, enter the query loop
Resolve(op, t, doc_symbols, skip, outcome) ==
    LET run == flatten_document_symbols(doc_symbols)
        flat == run.flat_symbols
        positions == Positions(flat, tasks[t].items)
    IN QueryPass(op, t, flat, positions, <<>>, skip,
                 [kind |-> outcome.kind, len |-> outcome.len,
                  symbols |-> doc_symbols, flatten |-> run,
                  spans |-> ResolverSpans(flat, tasks[t].items)], 0)

SymbolsKind(outcome) ==
    [kind |-> IF ~outcome.ok THEN "Err" ELSE IF outcome.symbols = <<>> THEN "Empty" ELSE "Some",
     len |-> Len(outcome.symbols)]

\* The debounce timer fires: both checks, then project.document_symbols is
\* called and awaited; if it cannot be called (can_issue is false) the task
\* goes on at once with no symbols
TimerFired(t, can_issue, skip) ==
    /\ t \in 1..Len(tasks)
    /\ tasks[t].pc = "debounce"
    /\ LET e == tasks[t].editor
           path == IF ~TaskEnabled(e) THEN "disabled"
                   ELSE IF Invalidated(t) THEN "invalidated"
                   ELSE "symbols"
       IN IF path = "symbols" /\ ~can_issue
          THEN Resolve("TimerFired", t, <<>>, skip, [kind |-> "NotIssued", len |-> 0])
          ELSE /\ tasks' = IF path = "symbols" THEN [tasks EXCEPT ![t].pc = "symbols"]
                           ELSE Return(t)
               /\ inlays' = inlays
               /\ last_step' = TaskStep("TimerFired", t, path, NoOutcome, 0, 0)
    /\ TaskReadsController
    /\ UNCHANGED <<ongoing_task, observe_active_editor,
                   observe_settings, hints_on, has_excerpt, outline>>

\* The document-symbol query returns
SymbolsDone(t, outcome, skip) ==
    /\ t \in 1..Len(tasks)
    /\ tasks[t].pc = "symbols"
    /\ Resolve("SymbolsDone", t, IF outcome.ok THEN outcome.symbols ELSE <<>>,
               skip, SymbolsKind(outcome))
    /\ TaskReadsController
    /\ UNCHANGED <<ongoing_task, observe_active_editor,
                   observe_settings, hints_on, has_excerpt, outline>>

\* `counts.push(count)`: the answer of the query, whatever it is, gives the
\* entry its count
PushCountUnlessFailed(counts, outcome) ==
    IF outcome.kind = "Err" THEN counts ELSE Append(counts, CountOf(outcome))

PushCount(counts, outcome) == Append(counts, CountOf(outcome))

\* The references query of entry Len(counts) + 1 returns: push its count and
\* go round the loop
ReferencesDone(t, outcome, skip) ==
    /\ t \in 1..Len(tasks)
    /\ tasks[t].pc = "refs"
    /\ QueryPass("ReferencesDone", t, tasks[t].flat_symbols, tasks[t].positions,
                 PushCount(tasks[t].counts, outcome), skip, outcome,
                 Len(tasks[t].counts) + 1)
    /\ TaskReadsController
    /\ UNCHANGED <<ongoing_task, observe_active_editor,
                   observe_settings, hints_on, has_excerpt, outline>>

----------------------------------------------------------------------------
(* In Spec the hint display of the multi-excerpt view stays on and every   *)
(* query can be issued.                                                    *)
SingleBufferEditors == {e \in Editors : is_singleton(e)}

Next ==
    \/ \E b \in BOOLEAN : SetEnabled(b)
    \/ \E item \in Editors \cup {NoEditor} : set_active_pane_item(item)
    \/ SettingsChanged
    \/ \E e \in Editors, event \in EditorEvents : EditorEvent(e, event)
    \/ \E e \in SingleBufferEditors, b \in BOOLEAN : ToggleInlayHints(e, b)
    \/ \E e \in SingleBufferEditors, b \in BOOLEAN : InlayHintSettingsApplied(e, b)
    \/ \E e \in Editors, d \in Documents : EditBuffer(e, d)
    \/ \E e \in Editors, b \in BOOLEAN : ExcerptsChanged(e, b)
    \/ \E t \in 1..Len(tasks) : TimerFired(t, TRUE, 0)
    \/ \E t \in {u \in 1..Len(tasks) : tasks[u].pc = "symbols"}, outcome \in SymbolOutcomes :
          SymbolsDone(t, outcome, 0)
    \/ \E t \in {u \in 1..Len(tasks) : tasks[u].pc = "refs"}, outcome \in RefOutcomes :
          ReferencesDone(t, outcome, 0)

Spec == Init /\ [][Next]_vars

----------------------------------------------------------------------------
(* The resolver specification: the feature is on, E1 shows any outline of  *)
(* ResolverDocs, and the symbol query answers with any forest of           *)
(* ResolverForests.                                                        *)

InitWith(docs) ==
    /\ enabled = TRUE
    /\ refresh_rev = 0
    /\ ongoing_task = 0
    /\ observe_active_editor = NoEditor
    /\ observe_settings = NoEditor
    /\ tasks = <<>>
    /\ hints_on = [e \in Editors |-> TRUE]
    /\ has_excerpt = [e \in Editors |-> TRUE]
    /\ outline \in {[e \in Editors |-> IF is_singleton(e) THEN d ELSE DocEmpty] : d \in docs}
    /\ inlays = [e \in Editors |-> {}]
    /\ last_step = Step("new", NoEditor, "new")

InitResolver == InitWith(ResolverDocs)

NextResolver ==
    \/ set_active_pane_item("E1")
    \/ \E t \in 1..Len(tasks) : TimerFired(t, TRUE, 0)
    \/ \E t \in {u \in 1..Len(tasks) : tasks[u].pc = "symbols"}, f \in ResolverForests :
          SymbolsDone(t, [ok |-> TRUE, symbols |-> f], 0)
    \/ \E t \in 1..Len(tasks) : ReferencesDone(t, [kind |-> "Some", len |-> 3], 0)

SpecResolver == InitResolver /\ [][NextResolver]_vars

----------------------------------------------------------------------------
(* The span specification: the resolver specification with the forests of  *)
(* SpanForests, over an outline of one entry.                              *)
InitSpan == InitWith({<<Item(o, o + 1)>> : o \in Offsets})

NextSpan ==
    \/ tasks = <<>> /\ set_active_pane_item("E1")
    \/ \E t \in 1..Len(tasks) : TimerFired(t, TRUE, 0)
    \/ \E t \in {u \in 1..Len(tasks) : tasks[u].pc = "symbols"}, f \in SpanForests :
          SymbolsDone(t, [ok |-> TRUE, symbols |-> f], 0)
    \/ \E t \in 1..Len(tasks) : ReferencesDone(t, [kind |-> "Some", len |-> 3], 0)

SpecSpan == InitSpan /\ [][NextSpan]_vars

----------------------------------------------------------------------------
(* The capacity specification: E1 shows an outline of MAX_REMOVE or        *)
(* MAX_REMOVE + 1 entries, which an edit may cut down to DocScenario.      *)

InitCapacity == InitWith(CapacityDocs)

NextCapacity ==
    \/ set_active_pane_item("E1")
    \/ EditBuffer("E1", DocScenario)
    \/ \E t \in 1..Len(tasks) : TimerFired(t, TRUE, 0)
    \/ \E t \in 1..Len(tasks) : SymbolsDone(t, [ok |-> FALSE, symbols |-> <<>>], 0)
    \/ \E t \in 1..Len(tasks) : ReferencesDone(t, [kind |-> "Some", len |-> 3], 0)

SpecCapacity == InitCapacity /\ [][NextCapacity]_vars


----------------------------------------------------------------------------
(* The views specification: both editors are activated, emit events and    *)
(* have their hint display toggled, the multi-excerpt one included; the    *)
(* outline is fixed, the symbol query fails and every references query     *)
(* finds three locations.                                                  *)
NextViews ==
    \/ \E b \in BOOLEAN : SetEnabled(b)
    \/ \E item \in Editors \cup {NoEditor} : set_active_pane_item(item)
    \/ SettingsChanged
    \/ \E e \in Editors : EditorEvent(e, "Reparsed")
    \/ \E e \in Editors, b \in BOOLEAN : ToggleInlayHints(e, b)
    \/ \E e \in Editors, b \in BOOLEAN : InlayHintSettingsApplied(e, b)
    \/ \E t \in 1..Len(tasks) : TimerFired(t, TRUE, 0)
    \/ \E t \in 1..Len(tasks) : SymbolsDone(t, [ok |-> FALSE, symbols |-> <<>>], 0)
    \/ \E t \in 1..Len(tasks) : ReferencesDone(t, [kind |-> "Some", len |-> 3], 0)

SpecViews == Init /\ [][NextViews]_vars

----------------------------------------------------------------------------
(* The wrap specification: the views specification started with the        *)
(* revision one below the u64 maximum.                                     *)
InitWrap ==
    /\ enabled = FALSE
    /\ refresh_rev = -2
    /\ ongoing_task = 0
    /\ observe_active_editor = NoEditor
    /\ observe_settings = NoEditor
    /\ tasks = <<>>
    /\ hints_on = [e \in Editors |-> TRUE]
    /\ has_excerpt = [e \in Editors |-> TRUE]
    /\ outline = [e \in Editors |-> IF is_singleton(e) THEN DocScenario ELSE DocEmpty]
    /\ inlays = [e \in Editors |-> {}]
    /\ last_step = Step("new", NoEditor, "new")

SpecWrap == InitWrap /\ [][NextViews]_vars

----------------------------------------------------------------------------
(* The frame specification: the views specification started with inlays of *)
(* other features in both editors, their ids on either side of the range   *)
(* of removal_ids.                                                         *)
OtherInlays ==
    {[id |-> i, position |-> 0, text |-> <<>>, cycle |-> 0] :
        i \in {HINT_BASE_ID - 1, HINT_BASE_ID + MAX_REMOVE}}

InitFrame ==
    /\ enabled = FALSE
    /\ refresh_rev = 0
    /\ ongoing_task = 0
    /\ observe_active_editor = NoEditor
    /\ observe_settings = NoEditor
    /\ tasks = <<>>
    /\ hints_on = [e \in Editors |-> TRUE]
    /\ has_excerpt = [e \in Editors |-> TRUE]
    /\ outline = [e \in Editors |-> IF is_singleton(e) THEN DocScenario ELSE DocEmpty]
    /\ inlays = [e \in Editors |-> OtherInlays]
    /\ last_step = Step("new", NoEditor, "new")

SpecFrame == InitFrame /\ [][NextViews]_vars

----------------------------------------------------------------------------
(* The counting specification: the single-buffer editor is activated, and  *)
(* activated again, over an outline of CountDocs; the symbol query and     *)
(* every references query may fail to be issued, fail, or answer.          *)
InitCounts == InitWith(CountDocs)

NextCounts ==
    \/ set_active_pane_item("E1")
    \/ \E t \in 1..Len(tasks), can_issue \in BOOLEAN, skip \in 0..MaxSkip :
          TimerFired(t, can_issue, skip)
    \/ \E t \in {u \in 1..Len(tasks) : tasks[u].pc = "symbols"},
          outcome \in CountSymbolOutcomes, skip \in 0..MaxSkip :
          SymbolsDone(t, outcome, skip)
    \/ \E t \in {u \in 1..Len(tasks) : tasks[u].pc = "refs"},
          outcome \in CountRefOutcomes, skip \in 0..MaxSkip :
          ReferencesDone(t, outcome, skip)

SpecCounts == InitCounts /\ [][NextCounts]_vars

----------------------------------------------------------------------------
(* The flatten specification: the single-buffer editor is activated over   *)
(* the scenario outline and the symbol query answers with any forest of    *)
(* FlattenForests; every references query finds three locations.           *)
InitFlatten == InitWith({DocScenario})

NextFlatten ==
    \/ set_active_pane_item("E1")
    \/ \E t \in 1..Len(tasks) : TimerFired(t, TRUE, 0)
    \/ \E t \in {u \in 1..Len(tasks) : tasks[u].pc = "symbols"}, f \in FlattenForests :
          SymbolsDone(t, [ok |-> TRUE, symbols |-> f], 0)
    \/ \E t \in {u \in 1..Len(tasks) : tasks[u].pc = "refs"} :
          ReferencesDone(t, [kind |-> "Some", len |-> 3], 0)

SpecFlatten == InitFlatten /\ [][NextFlatten]_vars

----------------------------------------------------------------------------
(* The progress specification: one activation signal and no other; the     *)
(* timer fires and every query returns, with any answer, each some time    *)
(* after it was awaited (weak fairness of the task's steps).               *)
InitLive == InitWith(CountDocs)

TaskProgress ==
    \/ \E t \in 1..Len(tasks) : TimerFired(t, TRUE, 0)
    \/ \E t \in {u \in 1..Len(tasks) : tasks[u].pc = "symbols"}, outcome \in CountSymbolOutcomes :
          SymbolsDone(t, outcome, 0)
    \/ \E t \in {u \in 1..Len(tasks) : tasks[u].pc = "refs"}, outcome \in CountRefOutcomes :
          ReferencesDone(t, outcome, 0)

NextLive ==
    \/ tasks = <<>> /\ set_active_pane_item("E1")
    \/ TaskProgress

SpecLive == InitLive /\ [][NextLive]_vars /\ WF_vars(TaskProgress)

----------------------------------------------------------------------------
(* The hung-query specification: the single-buffer editor is activated     *)
(* once; the references query of the second entry of that first cycle does *)
(* not return while the cycle is the only one, and activation signals      *)
(* arrive only while it is outstanding.                                    *)
HungQuery(t) ==
    /\ t = 1
    /\ t <= Len(tasks)
    /\ tasks[t].pc = "refs"
    /\ Len(tasks[t].counts) = 1

InitHung == InitWith(CountDocs)

NextHung ==
    \/ tasks = <<>> /\ set_active_pane_item("E1")
    \/ HungQuery(1) /\ set_active_pane_item("E1")
    \/ HungQuery(1) /\ EditorEvent("E1", "Reparsed")
    \/ HungQuery(1) /\ SettingsChanged
    \/ \E t \in 1..Len(tasks) : TimerFired(t, TRUE, 0)
    \/ \E t \in {u \in 1..Len(tasks) : tasks[u].pc = "symbols"}, outcome \in SymbolOutcomes :
          SymbolsDone(t, outcome, 0)
    \/ \E t \in {u \in 1..Len(tasks) : tasks[u].pc = "refs"}, outcome \in RefOutcomes :
          /\ HungQuery(t) => Len(tasks) > 1
          /\ ReferencesDone(t, outcome, 0)

SpecHung == InitHung /\ [][NextHung]_vars

----------------------------------------------------------------------------
(* The debounce specification: activation signals for the single-buffer    *)
(* editor arrive only while no task exists or the newest task is still in  *)
(* its debounce wait.                                                      *)
InDebounce == IF tasks = <<>> THEN TRUE ELSE tasks[Len(tasks)].pc = "debounce"

NextDebounce ==
    \/ InDebounce /\ set_active_pane_item("E1")
    \/ InDebounce /\ EditorEvent("E1", "Reparsed")
    \/ InDebounce /\ SettingsChanged
    \/ \E t \in 1..Len(tasks) : TimerFired(t, TRUE, 0)
    \/ \E t \in {u \in 1..Len(tasks) : tasks[u].pc = "symbols"}, outcome \in SymbolOutcomes :
          SymbolsDone(t, outcome, 0)
    \/ \E t \in {u \in 1..Len(tasks) : tasks[u].pc = "refs"}, outcome \in RefOutcomes :
          ReferencesDone(t, outcome, 0)

SpecDebounce == InitHung /\ [][NextDebounce]_vars

----------------------------------------------------------------------------
(* Properties *)

Reserved(sink) == {x \in sink : x.id \in removal_ids}

Prereq(e) == enabled /\ hints_on[e] /\ is_singleton(e)

TaskOps == {"TimerFired", "SymbolsDone", "ReferencesDone"}

Published == last_step.op \in TaskOps /\ last_step.path = "published"

\* C1 (staleness immunity): a task publishes only while it is the newest task
\* spawned, so a refresh that was still in flight when a later refresh was
\* triggered never splices; every inlay in a sink was built by a task that ran
\* to its end, never by one that was superseded in flight.
C1_StalenessImmunity ==
    /\ Published => last_step.task = Len(tasks)
    /\ \A e \in Editors : \A x \in inlays[e] :
          x.cycle \in 1..Len(tasks) /\ tasks[x.cycle].pc = "done"

C1_Witness ==
    /\ Len(tasks) >= 2
    /\ tasks[1].pc = "dropped"
    /\ Published /\ last_step.task = 2

SignalOps == Listened \cup {"SettingsChanged"}

HandledSignal == last_step.op \in SignalOps /\ last_step.path \notin {"unobserved", "ignored"}

C4_CleanupOnDisable ==
    (last_step.op \in TaskOps /\ last_step.path = "disabled" /\ ~enabled) =>
        Reserved(inlays[last_step.editor]) = {}

\* C5 as claimed (bounded capacity): every inlay id a publish inserted lies in
\* the reserved range.
C5_BoundedCapacity ==
    \A e \in Editors : \A x \in inlays[e] : x.id \in removal_ids

\* C6 as claimed: a cycle that is not superseded and whose prerequisites hold,
\* ending with an empty result set, leaves no annotation of the reserved range
\* in the sink.
C6_EmptyResultClears ==
    (/\ last_step.op \in TaskOps /\ last_step.path = "empty"
     /\ last_step.task = ongoing_task
     /\ tasks[last_step.task].rev = refresh_rev
     /\ Prereq(last_step.editor)) =>
        Reserved(inlays[last_step.editor]) = {}

\* C7 as claimed: the inlays of a sink were all inserted by one refresh cycle.
C7_SingleCycle ==
    \A e \in Editors : Cardinality({x.cycle : x \in inlays[e]}) <= 1

(* The resolver, stated over a task that has resolved its positions *)
Resolved(t) == tasks[t].pc = "refs"

Containing(t, i) ==
    {k \in 1..Len(tasks[t].flat_symbols) :
        /\ tasks[t].flat_symbols[k].range.start <= tasks[t].items[i].start
        /\ tasks[t].items[i].start < tasks[t].flat_symbols[k].range.end}

SpanOf(t, k) == tasks[t].flat_symbols[k].range.end - tasks[t].flat_symbols[k].range.start

Smallest(t, i) ==
    {k \in Containing(t, i) : \A j \in Containing(t, i) : SpanOf(t, k) <= SpanOf(t, j)}

SelectionStart(t, k) == to_point(tasks[t].flat_symbols[k].selection_range.start)

\* C8 (containment correctness): the position resolved for an entry is the
\* selection-range start of a symbol that contains the entry's start and has
\* the smallest span of those that do, and the entry's own start when no
\* symbol contains it.
C8_ContainmentCorrectness ==
    \A t \in 1..Len(tasks) : Resolved(t) =>
        \A i \in 1..Len(tasks[t].items) :
            IF Containing(t, i) = {}
            THEN tasks[t].positions[i] = to_point(tasks[t].items[i].start)
            ELSE \E k \in Smallest(t, i) : tasks[t].positions[i] = SelectionStart(t, k)

C8_Witness ==
    \E t \in 1..Len(tasks) : Resolved(t) /\
        \E i \in 1..Len(tasks[t].items) : \E k, j \in Containing(t, i) :
            /\ k < j /\ SpanOf(t, k) < SpanOf(t, j)
            /\ \A m \in Smallest(t, i) : SelectionStart(t, m) # SelectionStart(t, j)
            /\ tasks[t].positions[i] = SelectionStart(t, k)
            /\ tasks[t].positions[i] # to_point(tasks[t].items[i].start)

First(S) == CHOOSE k \in S : \A j \in S : k <= j
Last(S) == CHOOSE k \in S : \A j \in S : k >= j

\* C9 as claimed: of the containing symbols of smallest span, the resolver
\* keeps the first in the order of the flattened symbols.
C9_TiesKeepFirst ==
    \A t \in 1..Len(tasks) : Resolved(t) =>
        \A i \in 1..Len(tasks[t].items) : Smallest(t, i) # {} =>
            tasks[t].positions[i] = SelectionStart(t, First(Smallest(t, i)))

\* C9 amended: of the containing symbols of smallest span, the resolver keeps
\* the last in the order of the flattened symbols.
C9_TiesKeepLast ==
    \A t \in 1..Len(tasks) : Resolved(t) =>
        \A i \in 1..Len(tasks[t].items) : Smallest(t, i) # {} =>
            tasks[t].positions[i] = SelectionStart(t, Last(Smallest(t, i)))

C9_Witness ==
    \E t \in 1..Len(tasks) : Resolved(t) /\
        \E i \in 1..Len(tasks[t].items) :
            /\ Cardinality(Smallest(t, i)) >= 2
            /\ SelectionStart(t, First(Smallest(t, i))) # SelectionStart(t, Last(Smallest(t, i)))
            /\ tasks[t].positions[i] = SelectionStart(t, Last(Smallest(t, i)))

PublishedInlay(i) ==
    {x \in inlays[last_step.editor] : x.cycle = last_step.task /\ x.id = HINT_BASE_ID + (i - 1)}

\* C10 as claimed: the annotation published for entry i is placed at the
\* position resolved for entry i.
C10_PlacedAtAnchorPosition ==
    Published =>
        \A i \in 1..Len(last_step.items) : \A x \in PublishedInlay(i) :
            to_point(x.position) = last_step.positions[i]

\* C10 amended: the annotation published for entry i is placed at the start of
\* entry i itself, whatever position was resolved for it.
C10_PlacedAtEntryStart ==
    Published =>
        \A i \in 1..Len(last_step.items) :
            /\ PublishedInlay(i) # {}
            /\ \A x \in PublishedInlay(i) : x.position = last_step.items[i].start

\* The scenario of the specification: entries at 0 and 60, positions resolved
\* at 5 and 65, annotations at 0 and 60
C10_Witness ==
    /\ Published
    /\ last_step.items = DocScenario
    /\ last_step.positions = <<to_point(5), to_point(65)>>
    /\ {x.position : x \in inlays[last_step.editor]} = {0, 60}

\* The number a run of decimal digits denotes, most significant digit first
DecimalDigits == <<"0", "1", "2", "3", "4", "5", "6", "7", "8", "9">>

IsDigit(c) == \E k \in 1..10 : DecimalDigits[k] = c

RECURSIVE DecimalValue(_)
DecimalValue(digits) ==
    IF digits = <<>> THEN 0
    ELSE 10 * DecimalValue(SubSeq(digits, 1, Len(digits) - 1))
         + (CHOOSE k \in 1..10 : DecimalDigits[k] = digits[Len(digits)]) - 1

\* The text is the canonical decimal rendering of n followed by one space
RendersCount(text, n) ==
    /\ Len(text) >= 2
    /\ text[Len(text)] = " "
    /\ LET digits == SubSeq(text, 1, Len(text) - 1)
       IN /\ \A k \in 1..Len(digits) : IsDigit(digits[k])
          /\ Len(digits) > 1 => digits[1] # "0"
          /\ DecimalValue(digits) = n

\* C11 (identifier and text by entry index): when a cycle publishes, the sink
\* holds for every outline entry i (counted from 0) exactly one annotation with
\* identifier HINT_BASE_ID + i, and its text is the decimal count the cycle
\* collected for that same entry followed by one space; the sink holds no other
\* annotation of the feature.
C11_IdAndTextByEntry ==
    Published =>
        LET sink == inlays[last_step.editor]
            n == Len(last_step.items)
        IN /\ Len(last_step.counts) = n
           /\ Cardinality(sink) = n
           /\ \A i \in 1..n :
                 \E x \in sink : /\ x.id = HINT_BASE_ID + (i - 1)
                                 /\ RendersCount(x.text, last_step.counts[i])

\* A cycle published three entries whose counts are 0, 105 and 7, in that order
C11_Witness ==
    /\ Published
    /\ last_step.counts = <<0, 105, 7>>
    /\ Cardinality(inlays[last_step.editor]) = 3

\* A step of a task that ran the query loop: the counts the task holds after
\* it, the queries it has issued, and the number of entries it has to query
LoopOps == {"SymbolsDone", "ReferencesDone"}

RanLoop ==
    \/ last_step.op \in LoopOps
    \/ last_step.op = "TimerFired" /\ last_step.outcome.kind = "NotIssued"

CountsAfter ==
    IF last_step.path = "refs" THEN tasks[last_step.task].counts ELSE last_step.counts

IssuedAfter ==
    IF last_step.path = "refs" THEN tasks[last_step.task].issued ELSE last_step.issued

EntriesAfter ==
    IF last_step.path = "refs" THEN Len(tasks[last_step.task].positions)
    ELSE Len(last_step.positions)

\* C12 (a failing query counts 0 and ends nothing): a references query that
\* answers with an error or with no result, and every query that cannot be
\* issued, puts 0 in its entry's count; after it the task either has issued
\* the query of the next entry that can be issued or, if there is none, has
\* run the pass over every entry.
C12_FailedQueryCountsZero ==
    RanLoop =>
        LET k == last_step.entry
            done == k + last_step.skipped
        IN /\ (k > 0 /\ last_step.outcome.kind \in {"Err", "None"}) => CountsAfter[k] = 0
           /\ \A j \in (k + 1)..done : CountsAfter[j] = 0
           /\ Len(CountsAfter) = done
           /\ IF done < EntriesAfter
              THEN /\ last_step.path = "refs"
                   /\ tasks[last_step.task].pc = "refs"
                   /\ IssuedAfter[Len(IssuedAfter)] = done + 1
              ELSE /\ last_step.path # "refs"
                   /\ done = Len(last_step.items)

\* The query of entry 1 failed, the query of entry 2 could not be issued, and
\* the query of entry 3 is outstanding
C12_Witness ==
    /\ last_step.op = "ReferencesDone"
    /\ last_step.outcome.kind = "Err"
    /\ last_step.entry = 1
    /\ last_step.skipped = 1
    /\ tasks[last_step.task].pc = "refs"
    /\ tasks[last_step.task].counts = <<0, 0>>
    /\ tasks[last_step.task].issued = <<1, 3>>

\* C13 (sequential queries): a task issues its references queries in outline
\* order, each only when every earlier entry has its count, so at most one
\* query is outstanding; while the task is in the pass the outstanding query
\* is the one of the first entry without a count.
C13_OneQueryAtATime ==
    /\ \A t \in 1..Len(tasks) :
          LET issued == tasks[t].issued
              counts == tasks[t].counts
          IN /\ \A k \in 1..Len(issued) :
                   /\ issued[k] \in 1..Len(tasks[t].items)
                   /\ issued[k] <= Len(counts) + 1
                   /\ k > 1 => issued[k - 1] < issued[k]
             /\ Cardinality({k \in 1..Len(issued) : issued[k] > Len(counts)}) <= 1
             /\ tasks[t].pc = "refs" =>
                   /\ issued # <<>>
                   /\ issued[Len(issued)] = Len(counts) + 1
    /\ \A k \in 2..Len(last_step.issued) : last_step.issued[k - 1] < last_step.issued[k]

\* The third query is outstanding; the first two were issued and answered
C13_Witness ==
    \E t \in 1..Len(tasks) :
        /\ tasks[t].pc = "refs"
        /\ tasks[t].issued = <<1, 2, 3>>
        /\ tasks[t].counts = <<7, 105>>

\* C14 (final re-validation): a task that comes to the end of its query pass
\* while its revision is no longer the controller's, or while the feature flag
\* or the editor's hint display is off, leaves the sink of its editor as it
\* was before the step: it neither removes nor inserts.
C14_StaleResultsDiscarded ==
    (/\ RanLoop
     /\ tasks[last_step.task].pc = "done"
     /\ \/ refresh_rev # tasks[last_step.task].rev
        \/ ~enabled
        \/ ~hints_on[last_step.editor])
    => inlays[last_step.editor] = last_step.before

\* A task ended its pass with counts for both entries and found its revision
\* bumped; the feature was enabled again by then
C14_Witness ==
    /\ last_step.op = "ReferencesDone"
    /\ last_step.path = "invalidated"
    /\ Len(last_step.counts) = 2
    /\ enabled /\ hints_on[last_step.editor]

\* C15 (re-check after every suspension point): whenever a task resumes from
\* the symbol query or from a references query and issues a references query,
\* the feature flag and the editor's hint display are on and the task's
\* revision is still the controller's.
C15_RecheckBeforeEveryQuery ==
    (last_step.op \in LoopOps /\ last_step.path = "refs") =>
        /\ enabled
        /\ hints_on[last_step.editor]
        /\ refresh_rev = tasks[last_step.task].rev

\* The view made of several excerpts
MultiExcerpt(e) == e = "E2"

\* A step of one of the three entry points that ran the controller's code
EntryPoint ==
    /\ last_step.op \in SignalOps \cup {"set_active_pane_item"}
    /\ last_step.path \notin {"unobserved", "ignored"}

\* C16 (a multi-excerpt view is treated as disabled): an editor event, a
\* settings change or an activation handled for a view that is not a single
\* buffer leaves no annotation of the reserved range in that view, bumps the
\* revision so that no task left alive can publish, and spawns no task; no
\* task, and so no symbol or references query, ever exists for such a view.
C16_MultiExcerptViewDisabled ==
    [][/\ \A t \in 1..Len(tasks') : ~MultiExcerpt(tasks'[t].editor)
       /\ (EntryPoint' /\ MultiExcerpt(last_step'.editor)) =>
             /\ Reserved(inlays'[last_step'.editor]) = {}
             /\ refresh_rev' # refresh_rev
             /\ Len(tasks') = Len(tasks)
             /\ \A t \in 1..Len(tasks') :
                   tasks'[t].pc \in Live => tasks'[t].rev # refresh_rev']_vars

\* The multi-excerpt view had its hints toggled on while the feature was
\* enabled, and the handler stopped at the single-buffer check
C16_Witness ==
    /\ last_step.op = "InlayHintsToggledOn"
    /\ MultiExcerpt(last_step.editor)
    /\ last_step.path = "not_singleton"
    /\ enabled

\* The step in which a task learns that it has no symbols: the symbol query
\* failed, answered with nothing, or could not be issued
SymbolsUnavailable ==
    \/ last_step.op = "SymbolsDone" /\ last_step.outcome.kind \in {"Err", "Empty"}
    \/ last_step.op = "TimerFired" /\ last_step.outcome.kind = "NotIssued"

OwnStarts(items) == [i \in 1..Len(items) |-> to_point(items[i].start)]

Range(seq) == {seq[k] : k \in 1..Len(seq)}

\* C17 (symbol query failure is not fatal): a task whose symbol query failed,
\* was empty or could not be issued goes on with an empty flat symbol set and
\* with every entry's own start as its anchor position, and enters the query
\* pass; a task that reaches the end of the pass has issued the query of every
\* entry whose query could be issued and, nothing having invalidated it,
\* publishes.
C17_SymbolFailureNotFatal ==
    /\ SymbolsUnavailable =>
          IF last_step.path = "refs"
          THEN LET task == tasks[last_step.task]
               IN /\ task.pc = "refs"
                  /\ task.flat_symbols = <<>>
                  /\ task.positions = OwnStarts(task.items)
                  /\ task.issued # <<>>
          ELSE /\ last_step.positions = OwnStarts(last_step.items)
               /\ last_step.issued = <<>>
               /\ last_step.skipped = Len(last_step.items)
    /\ (last_step.op \in TaskOps /\ last_step.path \notin {"symbols", "refs"}) =>
          /\ last_step.path = "published"
          /\ \A i \in 1..Len(last_step.items) :
                i \in Range(last_step.issued) \/ last_step.counts[i] = 0

\* A task published three entries anchored at their own starts, after one
\* query each
C17_Witness ==
    /\ Published
    /\ last_step.items = DocThree
    /\ last_step.positions = OwnStarts(DocThree)
    /\ last_step.issued = <<1, 2, 3>>
    /\ last_step.counts = <<7, 7, 7>>

\* An annotation as the sink's readers see it
Annotation(x) == [id |-> x.id, position |-> x.position, text |-> x.text]

Annotations(sink) == {Annotation(x) : x \in sink}

\* What a sink shows, entry by entry: where each annotation sits and the
\* number it renders
Shown(sink) ==
    {<<x.position, DecimalValue(SubSeq(x.text, 1, Len(x.text) - 1))>> : x \in sink}

\* C18 (idempotence): when a cycle publishes over the annotations an earlier
\* cycle published, and its outline entries and the counts it collected are
\* the ones those annotations show, the sink holds the same annotations (by
\* identifier, position and text) after the publish as before it.
C18_Idempotence ==
    Published =>
        LET old == last_step.before
            new == inlays[last_step.editor]
            items == last_step.items
            counts == last_step.counts
        IN (/\ old # {}
            /\ Cardinality(old) = Len(items)
            /\ Shown(old) = {<<items[i].start, counts[i]>> : i \in 1..Len(items)})
           => Annotations(new) = Annotations(old)

\* The second cycle published the counts 7, 0, 105 over a sink that the first
\* cycle had filled with the same three counts
C18_Witness ==
    /\ Published
    /\ last_step.task = 2
    /\ last_step.counts = <<7, 0, 105>>
    /\ \A x \in last_step.before : x.cycle = 1
    /\ Annotations(last_step.before) = Annotations(inlays[last_step.editor])
    /\ Annotations(inlays[last_step.editor]) =
          {[id |-> HINT_BASE_ID, position |-> 0, text |-> <<"7", " ">>],
           [id |-> HINT_BASE_ID + 1, position |-> 60, text |-> <<"0", " ">>],
           [id |-> HINT_BASE_ID + 2, position |-> 130, text |-> <<"1", "0", "5", " ">>]}

\* C19 (a new signal supersedes): after an editor event, a settings change or
\* an activation handled while the feature flag and the hint display are on
\* and the view is a single buffer, the newest task is the only live one, it
\* is the controller's task and it is in its debounce wait: the cycle that was
\* in progress is abandoned and nothing is queued behind another.
C19_SignalSupersedes ==
    (EntryPoint /\ last_step.editor \in Editors /\ Prereq(last_step.editor)) =>
        /\ tasks # <<>>
        /\ ongoing_task = Len(tasks)
        /\ tasks[Len(tasks)].pc = "debounce"
        /\ \A t \in 1..(Len(tasks) - 1) : tasks[t].pc \notin Live

\* C20 (at most one live cycle): in every reachable state at most one task
\* can still run, and so still reach the publish step, and it is the task the
\* controller holds; every other task has returned or was dropped.
C20_AtMostOneLiveCycle ==
    /\ Cardinality({t \in 1..Len(tasks) : tasks[t].pc \in Live}) <= 1
    /\ \A t \in 1..Len(tasks) : tasks[t].pc \in Live => ongoing_task = t

\* A second task is in its query pass after the first was dropped in flight
C20_Witness ==
    /\ Len(tasks) = 2
    /\ tasks[1].pc = "dropped"
    /\ tasks[2].pc = "refs"
    /\ tasks[2].rev = refresh_rev

\* C21 (cleared at the start of every refresh): when a refresh has just been
\* scheduled, before its debounce wait and its queries, the sink of its
\* editor holds no annotation of the reserved range.
C21_ClearedWhenScheduled ==
    (EntryPoint /\ last_step.path = "spawned") =>
        Reserved(inlays[last_step.editor]) = {}

\* C22 (a hung query blocks only its own cycle): when the references query of
\* the first cycle hangs and an activation signal arrives, the first cycle is
\* abandoned at once and a second cycle starts; only the second cycle ever
\* publishes, and the first publishes nothing even if its query returns
\* after the signal.
C22_HungQueryBlocksOnlyItsCycle ==
    /\ Len(tasks) > 1 => tasks[1].pc = "dropped"
    /\ Published => last_step.task > 1
    /\ \A e \in Editors : \A x \in inlays[e] : x.cycle > 1

\* The second cycle has published both entries while the first, superseded
\* with its second query outstanding, never ended
C22_Witness ==
    /\ Published
    /\ last_step.task = 2
    /\ Len(last_step.counts) = 2
    /\ tasks[1].pc = "dropped"
    /\ \A x \in inlays["E1"] : x.cycle = 2

\* C23 (debounce coalescing): a task in its debounce wait has issued no query;
\* a step issues a symbol query only when the debounce timer of its task
\* fires; and when every signal arrives before the debounce wait of the
\* signal before it has elapsed, every cycle but the last was abandoned and
\* only the last one issues queries.
C23_DebounceCoalescing ==
    /\ \A t \in 1..Len(tasks) :
          tasks[t].pc = "debounce" =>
              tasks[t].issued = <<>> /\ tasks[t].counts = <<>> /\ tasks[t].positions = <<>>
    /\ (last_step.op \in TaskOps /\ last_step.path \in {"symbols", "refs"}) =>
          /\ last_step.task = Len(tasks)
          /\ last_step.path = "symbols" => last_step.op = "TimerFired"
    /\ \A t \in 1..(Len(tasks) - 1) : tasks[t].pc = "dropped"

\* Two signals in a row: the first cycle was dropped in its debounce wait and
\* the debounce timer of the second has just fired
C23_Witness ==
    /\ Len(tasks) = 2
    /\ tasks[1].pc = "dropped"
    /\ last_step.op = "TimerFired"
    /\ last_step.path = "symbols"
    /\ last_step.task = 2

\* The view shows one buffer
SingleBuffer(e) == e = "E1"

\* C24 (prerequisites checked on leaving the debounce wait): a task goes on
\* from its debounce wait to a query only if at that moment the feature flag
\* is true, the hint display of its editor is on and its editor shows a single
\* buffer, whichever entry point scheduled it; a task that has issued a query
\* is a task of a single-buffer editor.
C24_QueriesNeedPrerequisites ==
    /\ (last_step.op = "TimerFired" /\ last_step.path \notin {"disabled", "invalidated"}) =>
          /\ enabled
          /\ hints_on[last_step.editor]
          /\ SingleBuffer(last_step.editor)
    /\ \A t \in 1..Len(tasks) :
          tasks[t].pc \in {"symbols", "refs"} => SingleBuffer(tasks[t].editor)

\* The only task there is was scheduled without a bump and left its debounce
\* wait with the feature flag false, issuing nothing
C24_Witness ==
    /\ last_step.op = "TimerFired"
    /\ last_step.path = "disabled"
    /\ ~enabled
    /\ hints_on[last_step.editor]
    /\ Len(tasks) = 1
    /\ refresh_rev = 0

\* a < b as unsigned 64-bit values, on the two's-complement reading
ULess(a, b) == IF (a < 0) = (b < 0) THEN a < b ELSE a >= 0

\* The handler paths that run bump_and_clear
BumpPaths == {"toggled_off", "not_enabled", "not_singleton", "cleared"}

\* C25 (the revision never decreases): a step changes the Refresh Revision
\* exactly when it runs bump_and_clear, the change is +1 modulo 2^64, and the
\* new value is smaller than the old one only when the old one is the u64
\* maximum.
C25_RevisionMonotone ==
    [][/\ IF last_step'.path \in BumpPaths
          THEN refresh_rev' - refresh_rev = 1
          ELSE refresh_rev' = refresh_rev
       /\ ULess(refresh_rev', refresh_rev) => refresh_rev = -1]_vars

\* The revision has wrapped from the u64 maximum to 0 in a bump
C25_Witness ==
    /\ refresh_rev = 0
    /\ last_step.path \in BumpPaths

\* The nodes of a forest, roots and descendants, each without its children
RECURSIVE Nodes(_)
Nodes(forest) ==
    IF forest = <<>> THEN <<>>
    ELSE <<[forest[1] EXCEPT !.children = <<>>]>>
         \o Nodes(forest[1].children)
         \o Nodes(SubSeq(forest, 2, Len(forest)))

\* How many elements of the sequence are x
Occurrences(x, seq) == Cardinality({i \in 1..Len(seq) : seq[i] = x})

\* The step flattened the answer of the symbol query
Flattened == last_step.op = "SymbolsDone"

\* C26 (flatten keeps every node once): the flat list has one element per
\* node of the forest, roots and descendants at every depth, with the node's
\* range and selection_range and no children; a node occurs in the list as
\* often as in the forest.
C26_FlattenKeepsEveryNode ==
    Flattened =>
        LET forest == last_step.outcome.symbols
            flat == last_step.outcome.flatten.flat_symbols
        IN /\ Len(flat) = Len(Nodes(forest))
           /\ \A i \in 1..Len(flat) : flat[i].children = <<>>
           /\ \A i \in 1..Len(Nodes(forest)) :
                 Occurrences(Nodes(forest)[i], flat) = Occurrences(Nodes(forest)[i], Nodes(forest))

\* A forest of depth three with equal symbols in it has been flattened
C26_Witness ==
    /\ Flattened
    /\ \E i \in 1..Len(last_step.outcome.symbols) :
          \E j \in 1..Len(last_step.outcome.symbols[i].children) :
             last_step.outcome.symbols[i].children[j].children # <<>>
    /\ \E x \in {last_step.outcome.flatten.flat_symbols[i] :
                    i \in 1..Len(last_step.outcome.flatten.flat_symbols)} :
          Occurrences(x, last_step.outcome.flatten.flat_symbols) > 1

\* C27 (flatten terminates on its work stack): the loop pops one node per
\* iteration, runs as many iterations as the forest has nodes, and ends with
\* an empty stack.
C27_FlattenTerminates ==
    Flattened =>
        /\ last_step.outcome.flatten.pops = Len(Nodes(last_step.outcome.symbols))
        /\ last_step.outcome.flatten.stack = <<>>

\* A forest of two roots with children has been flattened in more iterations
\* than it has roots
C27_Witness ==
    /\ Flattened
    /\ Len(last_step.outcome.symbols) = 2
    /\ last_step.outcome.flatten.pops > 2
    /\ last_step.outcome.flatten.stack = <<>>

\* Symbol k of task t starts at the start of entry i and is not empty
StartsAt(t, k, i) ==
    /\ tasks[t].flat_symbols[k].range.start = tasks[t].items[i].start
    /\ tasks[t].items[i].start < tasks[t].flat_symbols[k].range.end

\* Symbol k of task t ends at or before the start of entry i (an empty symbol
\* at the entry's start does), or starts after it
Outside(t, k, i) ==
    \/ tasks[t].flat_symbols[k].range.end <= tasks[t].items[i].start
    \/ tasks[t].flat_symbols[k].range.start > tasks[t].items[i].start

\* C28 (containment is half-open): when every symbol ends at or before the
\* entry's start offset, is empty or starts after it, the entry resolves to
\* its own start; when the only other symbols are ones that start at the
\* entry's start offset, the entry resolves to the selection start of one of
\* those.
C28_HalfOpenContainment ==
    \A t \in 1..Len(tasks) : Resolved(t) =>
        \A i \in 1..Len(tasks[t].items) :
            LET All == 1..Len(tasks[t].flat_symbols)
                Starting == {k \in All : StartsAt(t, k, i)}
            IN /\ (\A k \in All : Outside(t, k, i)) =>
                     tasks[t].positions[i] = to_point(tasks[t].items[i].start)
               /\ (Starting # {} /\ \A k \in All \ Starting : Outside(t, k, i)) =>
                     \E k \in Starting : tasks[t].positions[i] = SelectionStart(t, k)

\* An entry with a symbol that ends at its start, an empty symbol at its
\* start and a symbol that starts there resolved into the last of them
C28_Witness ==
    \E t \in 1..Len(tasks) : Resolved(t) /\
        \E i \in 1..Len(tasks[t].items) : \E a, b, c \in 1..Len(tasks[t].flat_symbols) :
            /\ tasks[t].flat_symbols[a].range.end = tasks[t].items[i].start
            /\ tasks[t].flat_symbols[a].range.start < tasks[t].items[i].start
            /\ tasks[t].flat_symbols[b].range.start = tasks[t].items[i].start
            /\ tasks[t].flat_symbols[b].range.end = tasks[t].items[i].start
            /\ StartsAt(t, c, i)
            /\ tasks[t].positions[i] = SelectionStart(t, c)
            /\ tasks[t].positions[i] # to_point(tasks[t].items[i].start)
            /\ SelectionStart(t, a) # SelectionStart(t, c)
            /\ SelectionStart(t, b) # SelectionStart(t, c)

\* C29 (the pipeline touches only its own ids): the inlays of other features,
\* whose ids lie outside HINT_BASE_ID .. HINT_BASE_ID + MAX_REMOVE - 1, stay
\* in their sinks through every clear and every publish, and no operation of
\* the pipeline changes the outline of a document.
C29_OnlyOwnIdsRemoved ==
    /\ \A e \in Editors : OtherInlays \subseteq inlays[e]
    /\ outline = [e \in Editors |-> IF MultiExcerpt(e) THEN DocEmpty ELSE DocScenario]

\* A cycle has published into a sink that was cleared before and holds the
\* inlays of other features
C29_Witness ==
    /\ Published
    /\ refresh_rev > 0
    /\ Reserved(inlays[last_step.editor]) # {}
    /\ OtherInlays \subseteq inlays[last_step.editor]
    /\ inlays[last_step.editor] # last_step.before

\* C30 (the task only reads the controller): no step of the refresh task
\* changes the Refresh Revision or the enabled flag; the revision changes
\* only in a handler step that runs bump_and_clear and the flag only when its
\* owner writes it.
C30_TaskOnlyReads ==
    [][/\ last_step'.op \in TaskOps => (refresh_rev' = refresh_rev /\ enabled' = enabled)
       /\ refresh_rev' # refresh_rev =>
             (last_step'.op \notin TaskOps /\ last_step'.path \in BumpPaths)
       /\ enabled' # enabled => last_step'.op = "SetEnabled"]_vars

\* A task has read the flag and a bumped revision up to its publish, and both
\* are as the handlers left them
C30_Witness ==
    /\ Published
    /\ enabled
    /\ refresh_rev > 0
    /\ tasks[last_step.task].rev = refresh_rev

NoRepeat(seq) == \A i, j \in 1..Len(seq) : seq[i] = seq[j] => i = j

\* C31 (no retries): a task never comes back to its debounce wait or to its
\* symbol query once it has left it, so it issues the symbol query at most
\* once; it issues at most one references query per outline entry, whatever
\* the queries answer; and a new task, which asks again, is started only by a
\* handler step, never by a step of a task.
C31_NoRetries ==
    [][/\ \A t \in 1..Len(tasks) :
             /\ tasks'[t].pc = "debounce" => tasks[t].pc = "debounce"
             /\ tasks'[t].pc = "symbols" => tasks[t].pc \in {"debounce", "symbols"}
             /\ (tasks[t].pc = "debounce" /\ tasks'[t].pc = "symbols") =>
                   (last_step'.op = "TimerFired" /\ last_step'.task = t)
       /\ \A t \in 1..Len(tasks') : NoRepeat(tasks'[t].issued)
       /\ NoRepeat(last_step'.issued)
       /\ Len(tasks') >= Len(tasks)
       /\ Len(tasks') > Len(tasks) => last_step'.op \notin TaskOps]_vars

\* The second cycle's query of entry 1 failed and the task went on to the
\* query of entry 2
C31_Witness ==
    /\ last_step.op = "ReferencesDone"
    /\ last_step.outcome.kind = "Err"
    /\ last_step.task = 2
    /\ last_step.entry = 1
    /\ last_step.skipped = 0
    /\ tasks[2].pc = "refs"
    /\ tasks[2].issued = <<1, 2>>

\* The activation signals among the editor events, and the other events
ListedEvents == {"Reparsed", "ExcerptsEdited", "Edited", "BufferEdited", "Saved",
                 "InlayHintsToggledOn", "InlayHintsToggledOff"}
OtherEvents == EditorEvents \ ListedEvents

\* C32 (only the listed signals reach the controller): the step of an editor
\* event that is not a listed activation signal leaves the Refresh Revision,
\* the tasks, the stored in-flight task and every sink as they were.
C32_OtherEventsIgnored ==
    [][last_step'.op \in OtherEvents =>
          /\ refresh_rev' = refresh_rev
          /\ tasks' = tasks
          /\ ongoing_task' = ongoing_task
          /\ inlays' = inlays]_vars

\* An event that is not listed came from the observed editor while a task was
\* in flight and hints were shown
C32_Witness ==
    /\ last_step.op \in OtherEvents
    /\ last_step.editor = observe_active_editor
    /\ ongoing_task # 0
    /\ tasks[ongoing_task].pc \in Live
    /\ Reserved(inlays[last_step.editor]) # {}

\* C33 (checks and splice are one step): the final enablement check, the
\* final revision check and the publish splice run in one step of the task,
\* so in the state a publish splice leaves behind the controller's revision
\* is the one the task captured and the feature flag and the hint display of
\* the task's editor are on.
C33_PublishChecksAtomic ==
    Published =>
        /\ refresh_rev = tasks[last_step.task].rev
        /\ enabled
        /\ hints_on[last_step.editor]
        /\ tasks[last_step.task].pc = "done"

\* The second cycle published at the bumped revision it captured, after the
\* first was superseded
C33_Witness ==
    /\ Published
    /\ last_step.task = 2
    /\ tasks[1].pc = "dropped"
    /\ tasks[2].rev = 1
    /\ refresh_rev = 1
    /\ Reserved(inlays[last_step.editor]) # {}

\* C34 (a cycle left alone publishes): with the prerequisites true, an
\* outline that is not empty and no activation signal after the one that
\* scheduled it, a cycle whose timer and queries all complete comes to its
\* publish splice, and its task has ended.
C34_CycleCompletes ==
    (Len(tasks) = 1 /\ tasks[1].pc \in Live /\ tasks[1].items # <<>>)
        ~> (Published /\ last_step.task = 1 /\ tasks[1].pc = "done"
            /\ Cardinality(Reserved(inlays["E1"])) = Len(last_step.items))

\* The cycle published after its symbol query and one of its reference
\* queries had failed
C34_Witness ==
    /\ Published
    /\ last_step.task = 1
    /\ tasks[1].pc = "done"
    /\ last_step.outcome.kind = "Err"
    /\ last_step.counts = <<7, 105, 0>>

\* C35 (no active excerpt, nothing scheduled): a call of
\* refresh_symbol_ref_hints on a single-buffer editor without an active
\* excerpt adds no task and leaves the Refresh Revision and every sink as they
\* were; the stored task is the one the call found, which for an active-item
\* change is the cancelled one and otherwise the task stored before the step,
\* still running if it was.
C35_NoExcerptNoEffect ==
    [][last_step'.path = "no_excerpt" =>
          /\ ~MultiExcerpt(last_step'.editor)
          /\ refresh_rev' = refresh_rev
          /\ inlays' = inlays
          /\ Len(tasks') = Len(tasks)
          /\ IF last_step'.op = "set_active_pane_item"
             THEN /\ ongoing_task' = 0
                  /\ \A t \in 1..Len(tasks) : t # ongoing_task => tasks'[t] = tasks[t]
             ELSE /\ ongoing_task' = ongoing_task
                  /\ tasks' = tasks]_vars

\* A signal found no active excerpt while a cycle was in flight, and the cycle
\* is in flight still
C35_Witness ==
    /\ last_step.path = "no_excerpt"
    /\ last_step.op # "set_active_pane_item"
    /\ ~has_excerpt[last_step.editor]
    /\ ongoing_task # 0
    /\ tasks[ongoing_task].pc \in Live

\* No editor is the active item: both subscriptions are gone, no task is
\* stored and none is running
Detached ==
    /\ observe_active_editor = NoEditor
    /\ observe_settings = NoEditor
    /\ ongoing_task = 0
    /\ \A t \in 1..Len(tasks) : tasks[t].pc \notin Live

\* C36 (no editor active): when the active item becomes absent or is not an
\* editor, set_active_pane_item cancels the task in flight and drops both
\* subscriptions, and leaves the Refresh Revision and every sink as they
\* were; from then on every step before the next set_active_pane_item leaves
\* the tasks, the revision and the sinks unchanged and the controller
\* detached.
C36_NoEditorQuiescent ==
    [][/\ (last_step'.op = "set_active_pane_item" /\ last_step'.path = "no_editor") =>
             /\ Detached'
             /\ refresh_rev' = refresh_rev
             /\ inlays' = inlays
             /\ Len(tasks') = Len(tasks)
       /\ (Detached /\ last_step'.op # "set_active_pane_item") =>
             /\ Detached'
             /\ tasks' = tasks
             /\ refresh_rev' = refresh_rev
             /\ inlays' = inlays]_vars

\* With no editor active, hints shown and the last cycle cancelled, an event
\* of the editor came and was not handled
C36_Witness ==
    /\ Detached
    /\ last_step.path = "unobserved"
    /\ Reserved(inlays[last_step.editor]) # {}
    /\ \E t \in 1..Len(tasks) : tasks[t].pc = "dropped"

C38_SpansDoNotUnderflow ==
    last_step.op = "SymbolsDone" =>
        \A i \in 1..Len(last_step.outcome.spans) :
           \A k \in 1..Len(last_step.outcome.spans[i]) :
              last_step.outcome.spans[i][k] > 0

\* The resolver compared two spans over a forest that also holds a symbol
\* whose end is before its start, at or before the entry's start offset
C38_Witness ==
    /\ last_step.op = "SymbolsDone"
    /\ \E i \in 1..Len(last_step.outcome.spans) : Len(last_step.outcome.spans[i]) >= 2
    /\ \E k \in 1..Len(last_step.outcome.symbols) :
          /\ last_step.outcome.symbols[k].range.end < last_step.outcome.symbols[k].range.start
          /\ last_step.outcome.symbols[k].range.start <= tasks[last_step.task].items[1].start

====
